---- MODULE Spec2Model ----
(***************************************************************************)
(* Geometry access traits over two backends (native geo-types structures   *)
(* and columnar arrow2 arrays) and the geodesic perimeter/area algorithm   *)
(* of the geo crate.                                                       *)
(*                                                                         *)
(* Every accessor is a pure read, so the state is the geometry under       *)
(* inspection plus the record of the last call (`ret`).  Indices are       *)
(* zero-based as in the source; TLA+ sequences are one-based, so row i of  *)
(* an array a is a[i + 1].                                                 *)
(***************************************************************************)
EXTENDS Integers, Sequences, FiniteSets, TLC

VARIABLES
    array,            \* columnar polygon column: ListArray<i64> of ListArray<i64> of StructArray
    polygon,          \* native geo_types::Polygon
    geom,             \* native geo_types::Geometry
    ret               \* the last call: [fn, args, val]

vars == <<array, polygon, geom, ret>>

(***************************************************************************)
(* Bounds of the model.                                                    *)
(***************************************************************************)
MaxPts == 2        \* points per ring of an accessor fixture
MaxRings == 3      \* physical rings per columnar polygon row
MaxLead == 1       \* null rows in front of the polygon row in the column
UsizeBits == 8     \* width kept for usize (64 on the target), so that wrapped values stay small
MaxSide == 2       \* side of the square rings measured by the geodesic layer
MaxHoles == 2      \* interior rings of a measured polygon
MaxMembers == 2    \* members of a MultiPolygon / GeometryCollection
MaxDepth == 2      \* nesting depth of GeometryCollections

UsizeModulus == 2 ^ UsizeBits

(***************************************************************************)
(* Results of calls.  Option<T> is None / Some(v); a call that does not    *)
(* return (panic, failed unwrap, out-of-bounds index) is Panic; a plain    *)
(* (non-Option) return value is Val(v).                                    *)
(***************************************************************************)
None == [tag |-> "None"]
Some(v) == [tag |-> "Some", v |-> v]
Val(v) == [tag |-> "Val", v |-> v]
Panic == [tag |-> "Panic"]
NoCall == [fn |-> "none", args |-> <<>>, val |-> None]

Call(f, a, v) == [fn |-> f, args |-> a, val |-> v]

\* Vec<T>::get(i).cloned(): bounds-checked read, None when out of bounds
get(s, i) == IF i < Len(s) THEN Some(s[i + 1]) ELSE None

\* Index::index (s[i]): panics when out of bounds
index(s, i) == IF i < Len(s) THEN Val(s[i + 1]) ELSE Panic

\* usize subtraction a - b: exact when a >= b; otherwise it panics in a build
\* with overflow checks (debug) and wraps modulo 2^width in one without (release)
usize_sub(a, b) ==
    IF a >= b THEN {Val(a - b)}
    ELSE {Panic, Val((a - b) + UsizeModulus)}

(***************************************************************************)
(* Columnar arrays (arrow2), reduced to what the backend reads: a row      *)
(* count, a per-row null bit and the row's value.  A row is                *)
(* [valid, item] for list arrays and [valid, x, y] for the point struct    *)
(* array.                                                                  *)
(***************************************************************************)

\* Array::is_null(index).  In range it is the row's null bit.  Past the end
\* the validity bitmap is read beyond the array's length: the bit found there
\* is whatever the buffer holds, or the read itself faults.
is_null(a, i) ==
    IF i < Len(a) THEN {IF a[i + 1].valid THEN "valid" ELSE "null"}
    ELSE {"null", "valid", "panic"}

\* ListArray::value(index) / PrimitiveArray::value(index): bounds-checked
value(a, i) == index(a, i)

\* Point::new(x value, y value) of a row of the point struct array
point_of(row) == [x |-> row.x, y |-> row.y]

point_index(a, i) ==
    { IF n = "panic" THEN Panic
      ELSE IF n = "null" THEN None
      ELSE IF value(a, i) = Panic THEN Panic
      ELSE Some(point_of(value(a, i).v)) : n \in is_null(a, i) }

ArrowLineStringScalar(c) == [coords |-> c]

line_string_index(a, i) ==
    { IF n = "panic" THEN Panic
      ELSE IF n = "null" THEN None
      ELSE IF value(a, i) = Panic THEN Panic
      ELSE Some(ArrowLineStringScalar(value(a, i).v.item)) : n \in is_null(a, i) }

ArrowPolygonScalar(r) == [rings |-> r]

\* variant: the row's value is taken without a look at its null bit
polygon_index_unchecked(a, i) ==
    { IF value(a, i) = Panic THEN Panic
      ELSE Some(ArrowPolygonScalar(value(a, i).v.item)) }

polygon_index(a, i) ==
    { IF n = "panic" THEN Panic
      ELSE IF n = "null" THEN None
      ELSE IF value(a, i) = Panic THEN Panic
      ELSE Some(ArrowPolygonScalar(value(a, i).v.item)) : n \in is_null(a, i) }

\* Option::unwrap
unwrap(o) == IF o.tag = "Some" THEN Val(o.v) ELSE Panic

ArrowLineStringScalar_num_points(ls) == Val(Len(ls.coords))

ArrowLineStringScalar_point(ls, i) == point_index(ls.coords, i)

\* LineStringTrait::first_point / last_point (provided methods) on the
\* columnar line string
ArrowLineStringScalar_first_point(ls) ==
    IF ArrowLineStringScalar_num_points(ls).v = 0 THEN {None}
    ELSE ArrowLineStringScalar_point(ls, 0)

ArrowLineStringScalar_last_point(ls) ==
    IF ArrowLineStringScalar_num_points(ls).v = 0 THEN {None}
    ELSE UNION { IF k = Panic THEN {Panic} ELSE ArrowLineStringScalar_point(ls, k.v)
                 : k \in usize_sub(ArrowLineStringScalar_num_points(ls).v, 1) }

ArrowPolygonScalar_exterior(p) ==
    { unwrap(o) : o \in line_string_index(p.rings, 0) }

ArrowPolygonScalar_num_interiors(p) == usize_sub(Len(p.rings), 1)

ArrowPolygonScalar_interior(p, i) ==
    UNION { IF k = Panic THEN {Panic} ELSE line_string_index(p.rings, k.v)
            : k \in usize_sub(i, 1) }

(***************************************************************************)
(* Native backend: a LineString is its coordinate sequence, a Polygon is   *)
(* [exterior, interiors].                                                  *)
(***************************************************************************)
Polygon_exterior(p) == Val(p.exterior)

Polygon_interiors(p) == Val(p.interiors)

Polygon_num_interiors(p) == Val(Len(p.interiors))

Polygon_interior(p, i) == get(p.interiors, i)

LineString_points(ls) == Val(ls)

LineString_num_points(ls) == Val(Len(ls))

LineString_point(ls, i) == get(ls, i)

\* LineStringTrait::first_point / last_point (provided methods) on LineString<T>
LineString_first_point(ls) ==
    IF LineString_num_points(ls).v = 0 THEN None ELSE LineString_point(ls, 0)

LineString_last_point(ls) ==
    IF LineString_num_points(ls).v = 0 THEN None
    ELSE LineString_point(ls, LineString_num_points(ls).v - 1)

\* PointTrait::x / y of a native point
Point_x(p) == Val(p.x)

Point_y(p) == Val(p.y)

\* geometry/traits: (self[i].x, self[i].y).into(), wrapped in Some
LineStringF64_point(ls, i) ==
    IF index(ls, i) = Panic THEN Panic
    ELSE Some([x |-> index(ls, i).v.x, y |-> index(ls, i).v.y])

MultiPoint_num_points(mp) == Val(Len(mp))

MultiPoint_point(mp, i) == get(mp, i)

(***************************************************************************)
(* Geometry values: [kind, poly, members].  `poly` is read for Polygon,    *)
(* Rect and Triangle (the polygon the shape converts to), `members` for    *)
(* MultiPolygon and GeometryCollection.                                    *)
(***************************************************************************)
EmptyPolygon == [exterior |-> <<>>, interiors |-> <<>>]

Leaf(k) == [kind |-> k, poly |-> EmptyPolygon, members |-> <<>>]

PolygonGeom(p) == [kind |-> "Polygon", poly |-> p, members |-> <<>>]

Collection(k, ms) == [kind |-> k, poly |-> EmptyPolygon, members |-> ms]

GeometryCollection_geometries(gc) == Val(gc.members)

GeometryCollection_num_geometries(gc) == Val(Len(gc.members))

GeometryCollection_geometry(gc, i) == get(gc.members, i)

(***************************************************************************)
(* Accessor fixtures.  A polygon row is described by the point count of    *)
(* each physical ring and by at most one null element (the row, one ring   *)
(* or one point).  Point j of ring r carries (x, y) = (j, r), zero-based,  *)
(* so a read of the wrong ring or the wrong point is visible in the value. *)
(* The point counts of a row's rings are n0, n0 + step, n0 + 2 step, ...   *)
(* (modulo MaxPts + 1): rings of equal length for step 0, of different     *)
(* lengths for step 1.                                                     *)
(***************************************************************************)
Shape(k, n0, step) == [r \in 1..k |-> (n0 + (r - 1) * step) % (MaxPts + 1)]

Shapes == { Shape(k, n0, step) : k \in 0..MaxRings, n0 \in 0..MaxPts, step \in {0, 1} }

NullAts(shape) ==
    {[level |-> "none", r |-> 0, j |-> 0], [level |-> "row", r |-> 0, j |-> 0]}
    \cup {[level |-> "ring", r |-> r, j |-> 0] : r \in 1..Len(shape)}
    \cup UNION {{[level |-> "point", r |-> r, j |-> j] : j \in 1..shape[r]} : r \in 1..Len(shape)}

PointRow(na, r, j) ==
    [valid |-> ~(na.level = "point" /\ na.r = r /\ na.j = j), x |-> j - 1, y |-> r - 1]

RingRow(shape, na, r) ==
    [valid |-> ~(na.level = "ring" /\ na.r = r),
     item |-> [j \in 1..shape[r] |-> PointRow(na, r, j)]]

PolygonRow(shape, na) ==
    [valid |-> na.level # "row",
     item |-> [r \in 1..Len(shape) |-> RingRow(shape, na, r)]]

NullRow == [valid |-> FALSE, item |-> <<>>]

Column(shape, na, lead) == [k \in 1..lead |-> NullRow] \o <<PolygonRow(shape, na)>>

\* the coordinates a ring row stores, as a native LineString
CoordsOf(ring) == [j \in 1..Len(ring.item) |-> point_of(ring.item[j])]

\* Polygon::new(exterior, interiors) over the coordinates a polygon row stores
NativeOf(row) ==
    [exterior |-> IF Len(row.item) = 0 THEN <<>> ELSE CoordsOf(row.item[1]),
     interiors |-> [r \in 1..(Len(row.item) - 1) |-> CoordsOf(row.item[r + 1])]]

\* the native rings of a polygon, exterior first
RingsOf(p) == <<p.exterior>> \o p.interiors

\* GeometryCollection holding the polygon and each of its rings as a LineString
CollectionOf(p) ==
    Collection("GeometryCollection",
               <<PolygonGeom(p)>> \o [r \in 1..Len(RingsOf(p)) |-> Leaf("LineString")])

\* a row encodes a logical polygon: it is non-null, has an exterior, and no
\* ring or point of it is null
WellFormed(row) ==
    /\ row.valid
    /\ Len(row.item) >= 1
    /\ \A r \in 1..Len(row.item) :
        /\ row.item[r].valid
        /\ \A j \in 1..Len(row.item[r].item) : row.item[r].item[j].valid

\* the indices calls are made with: every in-range index, and at least one
\* index past the end of every sequence
PtIdx == 0..MaxPts
RingIdx == 0..MaxRings
RowIdx == 0..(MaxLead + 1)

\* the views polygon_index produces for the rows of the column
Views(idx) == { o.v : o \in { q \in polygon_index(array, idx) : q.tag = "Some" } }

\* the line strings line_string_index produces for the rings of a view
Lines(view, r) == { o.v : o \in { q \in line_string_index(view.rings, r) : q.tag = "Some" } }

Init ==
    /\ \E shape \in Shapes : \E na \in NullAts(shape) : \E lead \in 0..MaxLead :
        /\ array = Column(shape, na, lead)
        /\ polygon = NativeOf(PolygonRow(shape, na))
    /\ geom = CollectionOf(polygon)
    /\ ret = NoCall

\* a call is made by an idle caller and leaves its result in ret
Returns(c) == ret = NoCall /\ ret' = c /\ UNCHANGED <<array, polygon, geom>>

\* the caller consumes the result and is idle again
Drop == ret # NoCall /\ ret' = NoCall /\ UNCHANGED <<array, polygon, geom>>

(***************************************************************************)
(* Columnar backend calls.                                                 *)
(***************************************************************************)
CallPolygonIndex ==
    \E idx \in RowIdx : \E v \in polygon_index(array, idx) :
        Returns(Call("polygon_index", <<idx>>, v))

CallArrowExterior ==
    \E idx \in RowIdx : \E view \in Views(idx) :
        \E v \in ArrowPolygonScalar_exterior(view) :
            Returns(Call("ArrowPolygonScalar::exterior", <<idx>>, v))

CallArrowNumInteriors ==
    \E idx \in RowIdx : \E view \in Views(idx) :
        \E v \in ArrowPolygonScalar_num_interiors(view) :
            Returns(Call("ArrowPolygonScalar::num_interiors", <<idx>>, v))

CallArrowInterior ==
    \E idx \in RowIdx : \E view \in Views(idx) : \E i \in RingIdx :
        \E v \in ArrowPolygonScalar_interior(view, i) :
            Returns(Call("ArrowPolygonScalar::interior", <<idx, i>>, v))

CallLineStringIndex ==
    \E idx \in RowIdx : \E view \in Views(idx) : \E r \in RingIdx :
        \E v \in line_string_index(view.rings, r) :
            Returns(Call("line_string_index", <<idx, r>>, v))

CallArrowNumPoints ==
    \E idx \in RowIdx : \E view \in Views(idx) : \E r \in RingIdx :
        \E ls \in Lines(view, r) :
            Returns(Call("ArrowLineStringScalar::num_points", <<idx, r>>,
                         ArrowLineStringScalar_num_points(ls)))

CallArrowPoint ==
    \E idx \in RowIdx : \E view \in Views(idx) : \E r \in RingIdx :
        \E ls \in Lines(view, r) : \E i \in PtIdx :
            \E v \in ArrowLineStringScalar_point(ls, i) :
                Returns(Call("ArrowLineStringScalar::point", <<idx, r, i>>, v))

CallArrowFirstPoint ==
    \E idx \in RowIdx : \E view \in Views(idx) : \E r \in RingIdx :
        \E ls \in Lines(view, r) : \E v \in ArrowLineStringScalar_first_point(ls) :
            Returns(Call("ArrowLineStringScalar::first_point", <<idx, r>>, v))

CallArrowLastPoint ==
    \E idx \in RowIdx : \E view \in Views(idx) : \E r \in RingIdx :
        \E ls \in Lines(view, r) : \E v \in ArrowLineStringScalar_last_point(ls) :
            Returns(Call("ArrowLineStringScalar::last_point", <<idx, r>>, v))

(***************************************************************************)
(* Native backend calls.  Ring r of the polygon is its exterior for r = 0  *)
(* and interior r - 1 otherwise.                                           *)
(***************************************************************************)
CallPolygonExterior ==
    Returns(Call("Polygon::exterior", <<>>, Polygon_exterior(polygon)))

CallPolygonInteriors ==
    Returns(Call("Polygon::interiors", <<>>, Polygon_interiors(polygon)))

CallPolygonNumInteriors ==
    Returns(Call("Polygon::num_interiors", <<>>, Polygon_num_interiors(polygon)))

CallPolygonInterior ==
    \E i \in RingIdx :
        Returns(Call("Polygon::interior", <<i>>, Polygon_interior(polygon, i)))

CallLineStringPoints ==
    \E r \in 1..Len(RingsOf(polygon)) :
        Returns(Call("LineString::points", <<r - 1>>, LineString_points(RingsOf(polygon)[r])))

CallLineStringNumPoints ==
    \E r \in 1..Len(RingsOf(polygon)) :
        Returns(Call("LineString::num_points", <<r - 1>>,
                     LineString_num_points(RingsOf(polygon)[r])))

CallLineStringPoint ==
    \E r \in 1..Len(RingsOf(polygon)) : \E i \in PtIdx :
        Returns(Call("LineString::point", <<r - 1, i>>,
                     LineString_point(RingsOf(polygon)[r], i)))

CallLineStringFirstPoint ==
    \E r \in 1..Len(RingsOf(polygon)) :
        Returns(Call("LineString::first_point", <<r - 1>>,
                     LineString_first_point(RingsOf(polygon)[r])))

CallLineStringLastPoint ==
    \E r \in 1..Len(RingsOf(polygon)) :
        Returns(Call("LineString::last_point", <<r - 1>>,
                     LineString_last_point(RingsOf(polygon)[r])))

CallLineStringF64Point ==
    \E r \in 1..Len(RingsOf(polygon)) : \E i \in PtIdx :
        Returns(Call("LineString<f64>::point", <<r - 1, i>>,
                     LineStringF64_point(RingsOf(polygon)[r], i)))

\* MultiPoint over the points of the exterior ring
CallMultiPointPoint ==
    \E i \in PtIdx :
        Returns(Call("MultiPoint::point", <<i>>, MultiPoint_point(polygon.exterior, i)))

CallGeometry ==
    \E i \in RingIdx :
        Returns(Call("GeometryCollection::geometry", <<i>>,
                     GeometryCollection_geometry(geom, i)))

Next ==
    \/ CallPolygonIndex
    \/ CallArrowExterior
    \/ CallArrowNumInteriors
    \/ CallArrowInterior
    \/ CallLineStringIndex
    \/ CallArrowNumPoints
    \/ CallArrowPoint
    \/ CallArrowFirstPoint
    \/ CallArrowLastPoint
    \/ CallPolygonExterior
    \/ CallPolygonInteriors
    \/ CallPolygonNumInteriors
    \/ CallPolygonInterior
    \/ CallLineStringPoints
    \/ CallLineStringNumPoints
    \/ CallLineStringPoint
    \/ CallLineStringFirstPoint
    \/ CallLineStringLastPoint
    \/ CallLineStringF64Point
    \/ CallMultiPointPoint
    \/ CallGeometry
    \/ Drop

Spec == Init /\ [][Next]_vars

(***************************************************************************)
(* Helpers of the accessor claims.                                         *)
(***************************************************************************)
\* the physical ring list of row idx of the column (args[1] of a columnar call)
RowRings(idx) == array[idx + 1].item

\* the points a columnar line string view stores, in order
PointsOf(ls) == [j \in 1..Len(ls.coords) |-> point_of(ls.coords[j])]

\* a columnar result and a native result carry the same line string
SameLine(a, n) ==
    /\ a.tag = n.tag
    /\ (a.tag \in {"Some", "Val"}) => PointsOf(a.v) = n.v

(***************************************************************************)
(* C1: interior(i) indexes the interior rings only, from zero: on the      *)
(* native backend interior(i) is the i-th hole, on the columnar backend it *)
(* is physical ring i + 1, for every i < num_interiors(), with no fault.   *)
(***************************************************************************)
C1_InteriorIsZeroBased ==
    /\ (ret.fn = "Polygon::interior" /\ ret.args[1] < Len(polygon.interiors))
        => ret.val = Some(polygon.interiors[ret.args[1] + 1])
    /\ (ret.fn = "ArrowPolygonScalar::interior"
            /\ ret.args[2] + 1 < Len(RowRings(ret.args[1])))
        => ret.val \in line_string_index(RowRings(ret.args[1]), ret.args[2] + 1)

(***************************************************************************)
(* C2: an out-of-bounds index is reported as None by every indexed         *)
(* accessor of every backend; no call panics.                              *)
(***************************************************************************)
C2_OutOfBoundsIsNone ==
    /\ (ret.fn \in {"LineString::point", "LineString<f64>::point"}
            /\ ret.args[2] >= Len(RingsOf(polygon)[ret.args[1] + 1]))
        => ret.val = None
    /\ (ret.fn = "MultiPoint::point" /\ ret.args[1] >= Len(polygon.exterior))
        => ret.val = None
    /\ (ret.fn = "Polygon::interior" /\ ret.args[1] >= Len(polygon.interiors))
        => ret.val = None
    /\ (ret.fn = "GeometryCollection::geometry" /\ ret.args[1] >= Len(geom.members))
        => ret.val = None
    /\ (ret.fn = "ArrowLineStringScalar::point"
            /\ ret.args[3] >= Len(RowRings(ret.args[1])[ret.args[2] + 1].item))
        => ret.val = None
    /\ (ret.fn = "ArrowPolygonScalar::interior"
            /\ ret.args[2] + 1 >= Len(RowRings(ret.args[1])))
        => ret.val = None

(***************************************************************************)
(* C3: num_interiors() is the number of interior rings: the length of the  *)
(* interiors on the native backend, the physical ring count minus one on   *)
(* the columnar backend for every row polygon_index yields a view of, the  *)
(* row with an empty ring list included, with no underflow.                *)
(***************************************************************************)
C3_NumInteriorsIsRingCountMinusOne ==
    /\ ret.fn = "Polygon::num_interiors" => ret.val = Val(Len(polygon.interiors))
    /\ ret.fn = "ArrowPolygonScalar::num_interiors"
        => ret.val = Val(Len(RowRings(ret.args[1])) - 1)

(***************************************************************************)
(* C4: the traversal points() has num_points() items, and point(i) is Some *)
(* of the i-th point for every i < num_points(), on both backends.         *)
(***************************************************************************)
C4_PointMatchesTraversal ==
    /\ ret.fn = "LineString::points"
        => Val(Len(ret.val.v)) = LineString_num_points(RingsOf(polygon)[ret.args[1] + 1])
    /\ (ret.fn = "LineString::point"
            /\ ret.args[2] < LineString_num_points(RingsOf(polygon)[ret.args[1] + 1]).v)
        => ret.val = Some(LineString_points(RingsOf(polygon)[ret.args[1] + 1]).v[ret.args[2] + 1])
    /\ (ret.fn = "ArrowLineStringScalar::point"
            /\ ret.args[3] < Len(RowRings(ret.args[1])[ret.args[2] + 1].item))
        => ret.val = Some(point_of(RowRings(ret.args[1])[ret.args[2] + 1].item[ret.args[3] + 1]))

(***************************************************************************)
(* C5: backend transparency: for a row that encodes the native polygon,    *)
(* the columnar view returns the same exterior(), the same num_interiors() *)
(* and the same interior(i) for every i as the native polygon.             *)
(***************************************************************************)
C5_BackendsAgree ==
    (ret.fn # "none" /\ Len(ret.args) >= 1 /\ ret.args[1] < Len(array)
        /\ WellFormed(array[ret.args[1] + 1]))
    => /\ ret.fn = "ArrowPolygonScalar::exterior"
            => SameLine(ret.val, Polygon_exterior(polygon))
       /\ ret.fn = "ArrowPolygonScalar::num_interiors"
            => ret.val = Polygon_num_interiors(polygon)
       /\ ret.fn = "ArrowPolygonScalar::interior"
            => SameLine(ret.val, Polygon_interior(polygon, ret.args[2]))

(***************************************************************************)
(* C12: on the columnar backend exterior() of a view polygon_index         *)
(* produced for a non-null row never faults and is physical ring 0 of the  *)
(* row's ring list, whether or not the row has interior rings and whatever *)
(* the number of points of the exterior.                                   *)
(***************************************************************************)
C12_ExteriorIsRingZero ==
    ret.fn = "ArrowPolygonScalar::exterior"
    => /\ ret.val.tag = "Val"
       /\ Len(RowRings(ret.args[1])) >= 1
       /\ ret.val.v = ArrowLineStringScalar(RowRings(ret.args[1])[1].item)

C15_FirstAndLastPoint ==
    /\ ret.fn \in {"LineString::first_point", "LineString::last_point"}
        => LET ls == RingsOf(polygon)[ret.args[1] + 1]
           IN  /\ (ret.val = None) <=> (Len(ls) = 0)
               /\ (Len(ls) > 0 /\ ret.fn = "LineString::first_point")
                    => ret.val = Some(ls[1])
               /\ (Len(ls) > 0 /\ ret.fn = "LineString::last_point")
                    => ret.val = Some(ls[Len(ls)])
    /\ ret.fn \in {"ArrowLineStringScalar::first_point", "ArrowLineStringScalar::last_point"}
        => LET coords == RowRings(ret.args[1])[ret.args[2] + 1].item
           IN  /\ (ret.val = None) <=> (Len(coords) = 0)
               /\ (Len(coords) > 0 /\ ret.fn = "ArrowLineStringScalar::first_point")
                    => ret.val = Some(point_of(coords[1]))
               /\ (Len(coords) > 0 /\ ret.fn = "ArrowLineStringScalar::last_point")
                    => ret.val = Some(point_of(coords[Len(coords)]))

(***************************************************************************)
(* C16: the indexed accessor agrees with the count: on both backends, for  *)
(* a polygon none of whose ring rows is null, interior(i) is Some exactly  *)
(* when i < num_interiors() and None exactly when i >= num_interiors(),    *)
(* and interior(num_interiors() - 1) is the last hole.                     *)
(***************************************************************************)
C16_InteriorAgreesWithCount ==
    /\ ret.fn = "Polygon::interior"
        => LET n == Polygon_num_interiors(polygon).v
           IN  /\ (ret.val.tag = "Some") <=> (ret.args[1] < n)
               /\ (ret.val = None) <=> (ret.args[1] >= n)
               /\ (n > 0 /\ ret.args[1] = n - 1) => ret.val = Some(polygon.interiors[n])
    /\ (ret.fn = "ArrowPolygonScalar::interior"
            /\ Len(RowRings(ret.args[1])) >= 1
            /\ \A r \in 1..Len(RowRings(ret.args[1])) : RowRings(ret.args[1])[r].valid)
        => LET rings == RowRings(ret.args[1])
               n == Len(rings) - 1
           IN  /\ (ret.val.tag = "Some") <=> (ret.args[2] < n)
               /\ (ret.val = None) <=> (ret.args[2] >= n)
               /\ (n > 0 /\ ret.args[2] = n - 1)
                    => ret.val = Some(ArrowLineStringScalar(rings[n + 1].item))

(***************************************************************************)
(* Geodesic measurement.                                                   *)
(*                                                                         *)
(* PolygonArea (geographiclib_rs) is the external accumulator: points are  *)
(* fed as (lat, lon), compute(sign) closes the ring and yields its length  *)
(* and its area.  Here the sphere is a plane of total area EarthArea: the  *)
(* area of a ring is its shoelace sum (positive in the counter-clockwise   *)
(* sense, in units of half a grid cell), its length the sum of its edges   *)
(* (|dlon| + |dlat|).  A Clockwise accumulator negates the area; sign      *)
(* reduces it into (-EarthArea/2, EarthArea/2], no sign into               *)
(* [0, EarthArea).  EarthArea is odd, so no ring covers exactly half.      *)
(***************************************************************************)
EarthArea == 2 * MaxSide * MaxSide + 1

PolygonArea_new(winding) == [winding |-> winding, pts |-> <<>>]

add_point(pa, lat, lon) == [pa EXCEPT !.pts = Append(@, [lat |-> lat, lon |-> lon])]

Abs(n) == IF n < 0 THEN -n ELSE n

\* the point after point i on the closed ring
Succ(pts, i) == pts[(i % Len(pts)) + 1]

RECURSIVE CrossSum(_, _)
CrossSum(pts, i) ==
    IF i = 0 THEN 0
    ELSE CrossSum(pts, i - 1)
         + (pts[i].lon * Succ(pts, i).lat - Succ(pts, i).lon * pts[i].lat)

RECURSIVE EdgeSum(_, _)
EdgeSum(pts, i) ==
    IF i = 0 THEN 0
    ELSE EdgeSum(pts, i - 1)
         + Abs(Succ(pts, i).lon - pts[i].lon) + Abs(Succ(pts, i).lat - pts[i].lat)

compute(pa, sign) ==
    LET raw == CrossSum(pa.pts, Len(pa.pts))
        a == IF pa.winding = "CounterClockwise" THEN raw ELSE -raw
        m == a % EarthArea
    IN  [perimeter |-> EdgeSum(pa.pts, Len(pa.pts)),
         area |-> IF sign /\ 2 * m > EarthArea THEN m - EarthArea ELSE m]

\* ring.points().for_each(|p| pa.add_point(p.y(), p.x()))
RECURSIVE feed(_, _, _)
feed(pa, ring, i) ==
    IF i = 0 THEN pa
    ELSE add_point(feed(pa, ring, i - 1), ring[i].y, ring[i].x)

\* one ring through a fresh accumulator
ring_compute(ring, winding, sign) ==
    compute(feed(PolygonArea_new(winding), ring, Len(ring)), sign)

\* variant: the interior ring's area is added without abs()
add_interior_signed(acc, ring, winding, sign) ==
    [area |-> acc.area + ring_compute(ring, winding, sign).area,
     perimeter |-> acc.perimeter + ring_compute(ring, winding, sign).perimeter]

\* the closure run for each interior ring: inner_area += area.abs(),
\* inner_perimeter += perimeter
add_interior(acc, ring, winding, sign) ==
    [area |-> acc.area + Abs(ring_compute(ring, winding, sign).area),
     perimeter |-> acc.perimeter + ring_compute(ring, winding, sign).perimeter]

\* poly.interiors().iter().for_each(...) over the first i interior rings
RECURSIVE interiors_fold(_, _, _, _)
interiors_fold(rings, i, winding, sign) ==
    IF i = 0 THEN [area |-> 0, perimeter |-> 0]
    ELSE add_interior(interiors_fold(rings, i - 1, winding, sign), rings[i], winding, sign)

\* variant: the interior total keeps its sign
flip_inner_never(outer_area, inner_area) == inner_area

\* if outer_area < 0.0 && inner_area > 0.0 { inner_area = -inner_area }
flip_inner(outer_area, inner_area) ==
    IF outer_area < 0 /\ inner_area > 0 THEN -inner_area ELSE inner_area

\* (perimeter, area)
geodesic_area(poly, sign, reverse, exterior_only) ==
    LET exterior_winding == IF reverse THEN "Clockwise" ELSE "CounterClockwise"
        interior_winding == IF reverse THEN "CounterClockwise" ELSE "Clockwise"
        outer == ring_compute(poly.exterior, exterior_winding, sign)
        inner == IF exterior_only THEN [area |-> 0, perimeter |-> 0]
                 ELSE interiors_fold(poly.interiors, Len(poly.interiors),
                                     interior_winding, sign)
    IN  <<outer.perimeter + inner.perimeter,
          outer.area - flip_inner(outer.area, inner.area)>>

\* variant: the perimeter is taken with exterior_only set
Polygon_geodesic_perimeter_exterior_only(p) == geodesic_area(p, TRUE, FALSE, TRUE)[1]

Polygon_geodesic_perimeter(p) == geodesic_area(p, TRUE, FALSE, FALSE)[1]

Polygon_geodesic_area_signed(p) == geodesic_area(p, TRUE, FALSE, FALSE)[2]

\* variant: the unsigned area is computed with sign set
Polygon_geodesic_area_unsigned_with_sign(p) == geodesic_area(p, TRUE, FALSE, FALSE)[2]

Polygon_geodesic_area_unsigned(p) == geodesic_area(p, FALSE, FALSE, FALSE)[2]

Polygon_geodesic_perimeter_area_signed(p) == geodesic_area(p, TRUE, FALSE, FALSE)

Polygon_geodesic_perimeter_area_unsigned(p) == geodesic_area(p, FALSE, FALSE, FALSE)

(***************************************************************************)
(* Measured polygons: every ring is empty, a single point, or a square of  *)
(* side 1..MaxSide wound counter-clockwise or clockwise and closed by      *)
(* repeating its first point.                                              *)
(***************************************************************************)
Coord(x, y) == [x |-> x, y |-> y]

Square(s) == <<Coord(0, 0), Coord(s, 0), Coord(s, s), Coord(0, s), Coord(0, 0)>>

\* the ring with its winding reversed
Reversed(ring) == [i \in 1..Len(ring) |-> ring[Len(ring) + 1 - i]]

AreaRings ==
    {<<>>, <<Coord(0, 0)>>}
    \cup {Square(s) : s \in 1..MaxSide}
    \cup {Reversed(Square(s)) : s \in 1..MaxSide}

AreaPolygons ==
    { [exterior |-> e, interiors |-> h] :
        e \in AreaRings, h \in UNION { [1..k -> AreaRings] : k \in 0..MaxHoles } }

\* the polygon with the winding of the interior rings in S reversed
ReverseInteriors(p, S) ==
    [p EXCEPT !.interiors =
        [i \in 1..Len(p.interiors) |->
            IF i \in S THEN Reversed(p.interiors[i]) ELSE p.interiors[i]]]

\* the polygon with the winding of every ring reversed
ReversePolygon(p) ==
    [exterior |-> Reversed(p.exterior),
     interiors |-> [i \in 1..Len(p.interiors) |-> Reversed(p.interiors[i])]]

AreaInit ==
    /\ polygon \in AreaPolygons
    /\ array = <<>>
    /\ geom = PolygonGeom(polygon)
    /\ ret = NoCall

CallGeodesicPerimeter ==
    Returns(Call("geodesic_perimeter", <<>>, Val(Polygon_geodesic_perimeter(polygon))))

CallGeodesicAreaSigned ==
    Returns(Call("geodesic_area_signed", <<>>, Val(Polygon_geodesic_area_signed(polygon))))

CallGeodesicAreaUnsigned ==
    Returns(Call("geodesic_area_unsigned", <<>>, Val(Polygon_geodesic_area_unsigned(polygon))))

CallGeodesicPerimeterAreaSigned ==
    Returns(Call("geodesic_perimeter_area_signed", <<>>,
                 Val(Polygon_geodesic_perimeter_area_signed(polygon))))

CallGeodesicPerimeterAreaUnsigned ==
    Returns(Call("geodesic_perimeter_area_unsigned", <<>>,
                 Val(Polygon_geodesic_perimeter_area_unsigned(polygon))))

AreaNext ==
    \/ CallGeodesicPerimeter
    \/ CallGeodesicAreaSigned
    \/ CallGeodesicAreaUnsigned
    \/ CallGeodesicPerimeterAreaSigned
    \/ CallGeodesicPerimeterAreaUnsigned
    \/ Drop

AreaSpec == AreaInit /\ [][AreaNext]_vars

(***************************************************************************)
(* Helpers of the measurement claims.                                      *)
(***************************************************************************)
\* the accumulator's signed area and length of one ring, counter-clockwise positive
RingArea(ring) == ring_compute(ring, "CounterClockwise", TRUE).area

RingLength(ring) == ring_compute(ring, "CounterClockwise", TRUE).perimeter

RECURSIVE SumAbsAreas(_, _)
SumAbsAreas(rings, i) ==
    IF i = 0 THEN 0 ELSE SumAbsAreas(rings, i - 1) + Abs(RingArea(rings[i]))

RECURSIVE SumLengths(_, _)
SumLengths(rings, i) ==
    IF i = 0 THEN 0 ELSE SumLengths(rings, i - 1) + RingLength(rings[i])

\* the accumulator's signed area of a reversed ring is the negated signed area
ReversalNegates(ring) ==
    \A w \in {"CounterClockwise", "Clockwise"} :
        ring_compute(Reversed(ring), w, TRUE).area = -ring_compute(ring, w, TRUE).area

(***************************************************************************)
(* C6: the signed area of a polygon is the negative of the signed area of  *)
(* the polygon with every ring's winding reversed (given that the          *)
(* accumulator negates the signed area of a reversed ring), for every      *)
(* polygon, a zero-area exterior included.                                 *)
(***************************************************************************)
C6_ReversalNegatesSignedArea ==
    (ret.fn = "geodesic_area_signed"
        /\ \A r \in 1..Len(RingsOf(polygon)) : ReversalNegates(RingsOf(polygon)[r]))
    => ret.val.v = -Polygon_geodesic_area_signed(ReversePolygon(polygon))

(***************************************************************************)
(* C7: the signed area of a polygon does not change when the winding of    *)
(* any subset of its interior rings is reversed; the interior rings take   *)
(* the sum of the absolute values of their areas off the exterior's area.  *)
(***************************************************************************)
C7_InteriorWindingIrrelevant ==
    ret.fn = "geodesic_area_signed"
    => /\ \A S \in SUBSET (1..Len(polygon.interiors)) :
            Polygon_geodesic_area_signed(ReverseInteriors(polygon, S)) = ret.val.v
       /\ Abs(ret.val.v - RingArea(polygon.exterior))
            = SumAbsAreas(polygon.interiors, Len(polygon.interiors))

\* the signed area was taken of a polygon with a hole wound against the convention
C7_Witness ==
    /\ ret.fn = "geodesic_area_signed"
    /\ \E i \in 1..Len(polygon.interiors) : RingArea(polygon.interiors[i]) > 0
    /\ \E i \in 1..Len(polygon.interiors) : RingArea(polygon.interiors[i]) < 0
    /\ RingArea(polygon.exterior) > 0

(***************************************************************************)
(* C8 as stated: for a polygon with no interior rings the signed and the   *)
(* unsigned area are equal in absolute value, for either winding.          *)
(***************************************************************************)
C8_SignedUnsignedSameMagnitude ==
    (ret.fn = "geodesic_area_unsigned" /\ Len(polygon.interiors) = 0)
    => Abs(ret.val.v) = Abs(Polygon_geodesic_area_signed(polygon))

(***************************************************************************)
(* C8 as amended: for a polygon with no interior rings, the unsigned area  *)
(* equals the signed area s when s >= 0 and EarthArea + s when s < 0; the  *)
(* two agree in absolute value exactly when s >= 0.                        *)
(***************************************************************************)
C8_UnsignedFromSigned ==
    (ret.fn = "geodesic_area_unsigned" /\ Len(polygon.interiors) = 0)
    => LET s == Polygon_geodesic_area_signed(polygon)
       IN  /\ s >= 0 => ret.val.v = s
           /\ s < 0 => ret.val.v = EarthArea + s
           /\ (Abs(ret.val.v) = Abs(s)) <=> (s >= 0)

\* the unsigned area was taken of a hole-free polygon whose signed area is negative
C8_Witness ==
    /\ ret.fn = "geodesic_area_unsigned"
    /\ Len(polygon.interiors) = 0
    /\ Polygon_geodesic_area_signed(polygon) < 0

(***************************************************************************)
(* C9: the perimeter of a polygon is the length of its exterior ring plus  *)
(* the lengths of all its interior rings, and is the same in               *)
(* geodesic_perimeter() and in the first component of both                 *)
(* perimeter/area pairs.                                                   *)
(***************************************************************************)
C9_PerimeterIsSumOfRingLengths ==
    LET total == RingLength(polygon.exterior)
                 + SumLengths(polygon.interiors, Len(polygon.interiors))
    IN  /\ ret.fn = "geodesic_perimeter"
            => /\ ret.val.v = total
               /\ ret.val.v = Polygon_geodesic_perimeter_area_signed(polygon)[1]
               /\ ret.val.v = Polygon_geodesic_perimeter_area_unsigned(polygon)[1]
        /\ ret.fn \in {"geodesic_perimeter_area_signed", "geodesic_perimeter_area_unsigned"}
            => /\ ret.val.v[1] = total
               /\ ret.val.v[1] = Polygon_geodesic_perimeter(polygon)

\* the perimeter was taken of a polygon with an interior ring of positive length
C9_Witness ==
    /\ ret.fn = "geodesic_perimeter"
    /\ \E i \in 1..Len(polygon.interiors) : RingLength(polygon.interiors[i]) > 0
    /\ RingLength(polygon.exterior) > 0

\* the exterior's area and the interior total as the call named f computes
\* them: with sign for the signed measurements, without for the unsigned
SignOf(f) == f \in {"geodesic_area_signed", "geodesic_perimeter_area_signed"}

OuterArea(p, f) == ring_compute(p.exterior, "CounterClockwise", SignOf(f)).area

InnerArea(p, f) ==
    interiors_fold(p.interiors, Len(p.interiors), "Clockwise", SignOf(f)).area

(***************************************************************************)
(* C13 as stated: with outer the exterior's area and I the summed absolute *)
(* interior area, the area is outer - I when outer >= 0 and outer + I when *)
(* outer < 0, so |area| = | |outer| - I |, and the holes never increase    *)
(* the magnitude: |area| <= |outer|.                                       *)
(***************************************************************************)
C13_HolesNeverIncreaseMagnitude ==
    ret.fn \in {"geodesic_area_signed", "geodesic_area_unsigned"}
    => LET outer == OuterArea(polygon, ret.fn)
           I == InnerArea(polygon, ret.fn)
       IN  /\ outer >= 0 => ret.val.v = outer - I
           /\ outer < 0 => ret.val.v = outer + I
           /\ Abs(ret.val.v) = Abs(Abs(outer) - I)
           /\ Abs(ret.val.v) <= Abs(outer)

(***************************************************************************)
(* C13 as amended: the area is outer - I when outer >= 0 and outer + I     *)
(* when outer < 0, so |area| = | |outer| - I |; the magnitude does not     *)
(* exceed the exterior's exactly when I <= 2 |outer|.                      *)
(***************************************************************************)
C13_HolesSubtractFromMagnitude ==
    ret.fn \in {"geodesic_area_signed", "geodesic_area_unsigned"}
    => LET outer == OuterArea(polygon, ret.fn)
           I == InnerArea(polygon, ret.fn)
       IN  /\ outer >= 0 => ret.val.v = outer - I
           /\ outer < 0 => ret.val.v = outer + I
           /\ Abs(ret.val.v) = Abs(Abs(outer) - I)
           /\ (Abs(ret.val.v) <= Abs(outer)) <=> (I <= 2 * Abs(outer))

\* the signed area was taken of a polygon with a negative exterior area and
\* holes of positive total area, and the holes were added, not subtracted
C13_Witness ==
    /\ ret.fn = "geodesic_area_signed"
    /\ OuterArea(polygon, ret.fn) < 0
    /\ InnerArea(polygon, ret.fn) > 0
    /\ ret.val.v = OuterArea(polygon, ret.fn) + InnerArea(polygon, ret.fn)
    /\ Abs(ret.val.v) < Abs(OuterArea(polygon, ret.fn))

(***************************************************************************)
(* GeodesicArea for the other geometry kinds.  A measurement is named by   *)
(* its method; the two perimeter/area pairs return <<perimeter, area>>.    *)
(***************************************************************************)
Measurements ==
    {"geodesic_perimeter", "geodesic_area_signed", "geodesic_area_unsigned",
     "geodesic_perimeter_area_signed", "geodesic_perimeter_area_unsigned"}

PairMeasurements == {"geodesic_perimeter_area_signed", "geodesic_perimeter_area_unsigned"}

ZeroKinds == {"Point", "Line", "LineString", "MultiPoint", "MultiLineString"}

\* impl GeodesicArea<f64> for Polygon
polygon_impl(p, m) ==
    CASE m = "geodesic_perimeter" -> Polygon_geodesic_perimeter(p)
      [] m = "geodesic_area_signed" -> Polygon_geodesic_area_signed(p)
      [] m = "geodesic_area_unsigned" -> Polygon_geodesic_area_unsigned(p)
      [] m = "geodesic_perimeter_area_signed" -> Polygon_geodesic_perimeter_area_signed(p)
      [] m = "geodesic_perimeter_area_unsigned" -> Polygon_geodesic_perimeter_area_unsigned(p)

zero_impl(m) == IF m \in PairMeasurements THEN <<0, 0>> ELSE 0

\* self.to_polygon().<measurement>(); g.poly is the polygon the shape converts to
to_polygon_impl(g, m) == polygon_impl(g.poly, m)

RECURSIVE geometry_delegate_impl(_, _)

\* self.iter().fold(0.0 or (0.0, 0.0), ...) over the first i members
RECURSIVE sum_fold(_, _, _)
sum_fold(members, i, m) ==
    IF i = 0 THEN (IF m \in PairMeasurements THEN <<0, 0>> ELSE 0)
    ELSE LET total == sum_fold(members, i - 1, m)
             next == geometry_delegate_impl(members[i], m)
         IN  IF m \in PairMeasurements
             THEN <<total[1] + next[1], total[2] + next[2]>>
             ELSE total + next

\* variant: the fold stops before the last member
sum_impl_skip_last(g, m) ==
    sum_fold(g.members, IF Len(g.members) = 0 THEN 0 ELSE Len(g.members) - 1, m)

sum_impl(g, m) == sum_fold(g.members, Len(g.members), m)

\* impl GeodesicArea<f64> for Geometry<f64>: each variant to its own impl
geometry_delegate_impl(g, m) ==
    CASE g.kind \in ZeroKinds -> zero_impl(m)
      [] g.kind = "Polygon" -> polygon_impl(g.poly, m)
      [] g.kind \in {"Rect", "Triangle"} -> to_polygon_impl(g, m)
      [] g.kind \in {"MultiPolygon", "GeometryCollection"} -> sum_impl(g, m)

(***************************************************************************)
(* Measured geometries.  A collection holds one shape that is not a        *)
(* polygon, up to MaxMembers polygons, the MultiPolygon of those polygons  *)
(* and, down to depth MaxDepth, a collection of the same form.             *)
(***************************************************************************)
\* one polygon per ring; a counter-clockwise square wider than the unit
\* square has the unit square as a clockwise hole
GeomPolygons ==
    { [exterior |-> e,
       interiors |-> IF RingArea(e) > RingArea(Square(1))
                     THEN <<Reversed(Square(1))>> ELSE <<>>] : e \in AreaRings }

\* the rings of the member polygons, in a fixed order
GeomRings ==
    <<<<>>, <<Coord(0, 0)>>>>
    \o [s \in 1..MaxSide |-> Square(s)]
    \o [s \in 1..MaxSide |-> Reversed(Square(s))]

\* the polygon of GeomPolygons with exterior number n (counted cyclically)
GeomPolygonAt(n) ==
    CHOOSE p \in GeomPolygons : p.exterior = GeomRings[(n % Len(GeomRings)) + 1]

\* member lists of up to MaxMembers polygons: k times the same polygon
\* (step 0) or k polygons in a row (step 1), from every first polygon
PolygonLists ==
    { [i \in 1..k |-> GeomPolygonAt(n0 + (i - 1) * step)] :
        k \in 0..MaxMembers, n0 \in 0..(Len(GeomRings) - 1), step \in {0, 1} }

Triangle == <<Coord(0, 0), Coord(1, 0), Coord(0, 1), Coord(0, 0)>>

Shapes1D ==
    {Leaf(k) : k \in ZeroKinds}
    \cup {[kind |-> "Rect", poly |-> [exterior |-> Square(1), interiors |-> <<>>],
           members |-> <<>>],
          [kind |-> "Triangle", poly |-> [exterior |-> Triangle, interiors |-> <<>>],
           members |-> <<>>]}

AsGeometries(ps) == [i \in 1..Len(ps) |-> PolygonGeom(ps[i])]

RECURSIVE Nested(_, _, _)
Nested(leaf, ps, d) ==
    Collection("GeometryCollection",
               <<leaf>> \o AsGeometries(ps)
               \o <<Collection("MultiPolygon", AsGeometries(ps))>>
               \o (IF d = 0 THEN <<>> ELSE <<Nested(leaf, ps, d - 1)>>))

\* the collections, every direct member of one, and the empty collection
Geometries ==
    LET cs == { Nested(leaf, ps, d) : leaf \in Shapes1D, ps \in PolygonLists, d \in 0..MaxDepth }
    IN  cs \cup UNION { { c.members[i] : i \in 1..Len(c.members) } : c \in cs }
           \cup {Collection("GeometryCollection", <<>>)}

GeometryInit ==
    /\ geom \in Geometries
    /\ polygon = geom.poly
    /\ array = <<>>
    /\ ret = NoCall

CallGeometryPerimeter ==
    Returns(Call("geodesic_perimeter", <<"Geometry">>,
                 Val(geometry_delegate_impl(geom, "geodesic_perimeter"))))

CallGeometryAreaSigned ==
    Returns(Call("geodesic_area_signed", <<"Geometry">>,
                 Val(geometry_delegate_impl(geom, "geodesic_area_signed"))))

CallGeometryAreaUnsigned ==
    Returns(Call("geodesic_area_unsigned", <<"Geometry">>,
                 Val(geometry_delegate_impl(geom, "geodesic_area_unsigned"))))

CallGeometryPerimeterAreaSigned ==
    Returns(Call("geodesic_perimeter_area_signed", <<"Geometry">>,
                 Val(geometry_delegate_impl(geom, "geodesic_perimeter_area_signed"))))

CallGeometryPerimeterAreaUnsigned ==
    Returns(Call("geodesic_perimeter_area_unsigned", <<"Geometry">>,
                 Val(geometry_delegate_impl(geom, "geodesic_perimeter_area_unsigned"))))

GeometryNext ==
    \/ CallGeometryPerimeter
    \/ CallGeometryAreaSigned
    \/ CallGeometryAreaUnsigned
    \/ CallGeometryPerimeterAreaSigned
    \/ CallGeometryPerimeterAreaUnsigned
    \/ Drop

GeometrySpec == GeometryInit /\ [][GeometryNext]_vars

(***************************************************************************)
(* Helpers of the geometry claim.                                          *)
(***************************************************************************)
\* the polygons a geometry holds, at any depth, in order
RECURSIVE PolygonsIn(_)
RECURSIVE PolygonsInMembers(_, _)
PolygonsInMembers(members, i) ==
    IF i = 0 THEN <<>> ELSE PolygonsInMembers(members, i - 1) \o PolygonsIn(members[i])

PolygonsIn(g) ==
    IF g.kind \in {"Polygon", "Rect", "Triangle"} THEN <<g.poly>>
    ELSE PolygonsInMembers(g.members, Len(g.members))

\* the sum of a single (not pair) measurement over the first i polygons
RECURSIVE SumOverPolygons(_, _, _)
SumOverPolygons(ps, i, m) ==
    IF i = 0 THEN 0 ELSE SumOverPolygons(ps, i - 1, m) + polygon_impl(ps[i], m)

TotalOf(g, m) == SumOverPolygons(PolygonsIn(g), Len(PolygonsIn(g)), m)

\* the area measurement a pair is taken with
AreaOf(m) ==
    IF m = "geodesic_perimeter_area_signed" THEN "geodesic_area_signed"
    ELSE "geodesic_area_unsigned"

\* collections nested in the geometry, counted along the deepest chain
RECURSIVE DepthOf(_)
RECURSIVE MaxDepthOf(_, _)
MaxDepthOf(members, i) ==
    IF i = 0 THEN 0
    ELSE IF DepthOf(members[i]) > MaxDepthOf(members, i - 1)
         THEN DepthOf(members[i]) ELSE MaxDepthOf(members, i - 1)

DepthOf(g) ==
    IF g.kind = "GeometryCollection" THEN 1 + MaxDepthOf(g.members, Len(g.members)) ELSE 0

(***************************************************************************)
(* C10: every measurement of a Geometry is zero for Point, Line,           *)
(* LineString, MultiPoint and MultiLineString, and for MultiPolygon and    *)
(* GeometryCollection the sum of the measurement over the members, nested  *)
(* collections included to any depth (zero when empty); each pair is       *)
(* <<perimeter, area>> of the single measurements.                         *)
(***************************************************************************)
C10_GeometryMeasurementsAreRecursiveSums ==
    (ret.fn \in Measurements /\ ret.args = <<"Geometry">>)
    => /\ (geom.kind \in ZeroKinds /\ ret.fn \notin PairMeasurements) => ret.val.v = 0
       /\ (geom.kind \in ZeroKinds /\ ret.fn \in PairMeasurements) => ret.val.v = <<0, 0>>
       /\ ret.fn \notin PairMeasurements => ret.val.v = TotalOf(geom, ret.fn)
       /\ ret.fn \in PairMeasurements
            => /\ ret.val.v[1] = TotalOf(geom, "geodesic_perimeter")
               /\ ret.val.v[2] = TotalOf(geom, AreaOf(ret.fn))
               /\ ret.val.v[1] = geometry_delegate_impl(geom, "geodesic_perimeter")
               /\ ret.val.v[2] = geometry_delegate_impl(geom, AreaOf(ret.fn))

\* a pair was taken of a collection nested three deep that holds polygons
\* and a shape of zero measure, and neither component is zero
C10_Witness ==
    /\ ret.fn = "geodesic_perimeter_area_signed"
    /\ ret.args = <<"Geometry">>
    /\ DepthOf(geom) >= 3
    /\ \E i \in 1..Len(geom.members) : geom.members[i].kind \in ZeroKinds
    /\ \E i \in 1..Len(geom.members) :
        geom.members[i].kind = "MultiPolygon" /\ Len(geom.members[i].members) >= 2
    /\ ret.val.v[1] > 0
    /\ ret.val.v[2] # 0

(***************************************************************************)
(* Concurrent readers.                                                     *)
(*                                                                         *)
(* The traits are Send + Sync and every accessor takes &self: several      *)
(* threads hold shared references to one polygon view (columnar), one      *)
(* Polygon and one GeometryCollection (native) and call accessors on them  *)
(* with no coordination.  A call is two steps, its invocation and its      *)
(* return, and the steps of the threads interleave freely.  ret maps each  *)
(* thread to its call; a call that has not returned has the value Pending. *)
(* point(i) is called with the first index and with one past the end.      *)
(***************************************************************************)
Threads == {"t1", "t2"}

Pending == [tag |-> "Pending"]

\* the polygon view the threads share: polygon_index of the last row
SharedView == ArrowPolygonScalar(array[Len(array)].item)

\* the ring views of the shared view that line_string_index yields
SharedLines(r) == Lines(SharedView, r)

\* a hidden cache: the call takes the storage it reads out of its place
cached_borrow(s) == <<>>

\* &self: a shared borrow; the call gives back the storage it was given
shared_borrow(s) == s

\* the outcomes of accessor f called with arguments a on the shared values
Accessor(f, a) ==
    CASE f = "Point::x" -> {Point_x(polygon.exterior[a[1] + 1])}
      [] f = "Point::y" -> {Point_y(polygon.exterior[a[1] + 1])}
      [] f = "LineString::points" -> {LineString_points(RingsOf(polygon)[a[1] + 1])}
      [] f = "LineString::num_points" -> {LineString_num_points(RingsOf(polygon)[a[1] + 1])}
      [] f = "LineString::point" -> {LineString_point(RingsOf(polygon)[a[1] + 1], a[2])}
      [] f = "Polygon::exterior" -> {Polygon_exterior(polygon)}
      [] f = "Polygon::interiors" -> {Polygon_interiors(polygon)}
      [] f = "Polygon::num_interiors" -> {Polygon_num_interiors(polygon)}
      [] f = "Polygon::interior" -> {Polygon_interior(polygon, a[1])}
      [] f = "GeometryCollection::geometries" -> {GeometryCollection_geometries(geom)}
      [] f = "GeometryCollection::num_geometries" -> {GeometryCollection_num_geometries(geom)}
      [] f = "GeometryCollection::geometry" -> {GeometryCollection_geometry(geom, a[1])}
      [] f = "ArrowPolygonScalar::exterior" -> ArrowPolygonScalar_exterior(SharedView)
      [] f = "ArrowPolygonScalar::num_interiors" -> ArrowPolygonScalar_num_interiors(SharedView)
      [] f = "ArrowPolygonScalar::interior" -> ArrowPolygonScalar_interior(SharedView, a[1])
      [] f = "ArrowLineStringScalar::num_points" ->
            {ArrowLineStringScalar_num_points(ls) : ls \in SharedLines(a[1])}
      [] f = "ArrowLineStringScalar::point" ->
            UNION {ArrowLineStringScalar_point(ls, a[2]) : ls \in SharedLines(a[1])}

\* one non-null polygon row, its native polygon and the collection of it
ConcurrentInit ==
    /\ \E k \in 1..MaxRings : \E na \in NullAts(Shape(k, 1, 1)) :
        /\ na.level # "row"
        /\ array = Column(Shape(k, 1, 1), na, 0)
        /\ polygon = NativeOf(PolygonRow(Shape(k, 1, 1), na))
    /\ geom = CollectionOf(polygon)
    /\ ret = [t \in Threads |-> NoCall]

\* thread t invokes accessor f with arguments a
Invokes(t, f, a) ==
    /\ ret[t] = NoCall
    /\ ret' = [ret EXCEPT ![t] = Call(f, a, Pending)]
    /\ UNCHANGED <<array, polygon, geom>>

InvokePointX(t) ==
    \E j \in 1..Len(polygon.exterior) : Invokes(t, "Point::x", <<j - 1>>)

InvokePointY(t) ==
    \E j \in 1..Len(polygon.exterior) : Invokes(t, "Point::y", <<j - 1>>)

InvokeLineStringPoints(t) ==
    \E r \in 1..Len(RingsOf(polygon)) : Invokes(t, "LineString::points", <<r - 1>>)

InvokeLineStringNumPoints(t) ==
    \E r \in 1..Len(RingsOf(polygon)) : Invokes(t, "LineString::num_points", <<r - 1>>)

InvokeLineStringPoint(t) ==
    \E r \in 1..Len(RingsOf(polygon)) : \E i \in {0, MaxPts} :
        Invokes(t, "LineString::point", <<r - 1, i>>)

InvokePolygonExterior(t) == Invokes(t, "Polygon::exterior", <<>>)

InvokePolygonInteriors(t) == Invokes(t, "Polygon::interiors", <<>>)

InvokePolygonNumInteriors(t) == Invokes(t, "Polygon::num_interiors", <<>>)

InvokePolygonInterior(t) ==
    \E i \in RingIdx : Invokes(t, "Polygon::interior", <<i>>)

InvokeGeometries(t) == Invokes(t, "GeometryCollection::geometries", <<>>)

InvokeNumGeometries(t) == Invokes(t, "GeometryCollection::num_geometries", <<>>)

InvokeGeometry(t) ==
    \E i \in RingIdx : Invokes(t, "GeometryCollection::geometry", <<i>>)

InvokeArrowExterior(t) == Invokes(t, "ArrowPolygonScalar::exterior", <<>>)

InvokeArrowNumInteriors(t) == Invokes(t, "ArrowPolygonScalar::num_interiors", <<>>)

InvokeArrowInterior(t) ==
    \E i \in RingIdx : Invokes(t, "ArrowPolygonScalar::interior", <<i>>)

InvokeArrowNumPoints(t) ==
    \E r \in RingIdx :
        /\ SharedLines(r) # {}
        /\ Invokes(t, "ArrowLineStringScalar::num_points", <<r>>)

InvokeArrowPoint(t) ==
    \E r \in RingIdx : \E i \in {0, MaxPts} :
        /\ SharedLines(r) # {}
        /\ Invokes(t, "ArrowLineStringScalar::point", <<r, i>>)

\* the call of thread t reads the shared values and returns
Completes(t) ==
    /\ ret[t].val = Pending
    /\ \E v \in Accessor(ret[t].fn, ret[t].args) :
        ret' = [ret EXCEPT ![t] = Call(ret[t].fn, ret[t].args, v)]
    /\ array' = shared_borrow(array)
    /\ polygon' = shared_borrow(polygon)
    /\ geom' = shared_borrow(geom)

\* thread t is done with the value its call returned
Forgets(t) ==
    /\ ret[t] # NoCall
    /\ ret[t].val # Pending
    /\ ret' = [ret EXCEPT ![t] = NoCall]
    /\ UNCHANGED <<array, polygon, geom>>

ConcurrentNext ==
    \E t \in Threads :
        \/ InvokePointX(t)
        \/ InvokePointY(t)
        \/ InvokeLineStringPoints(t)
        \/ InvokeLineStringNumPoints(t)
        \/ InvokeLineStringPoint(t)
        \/ InvokePolygonExterior(t)
        \/ InvokePolygonInteriors(t)
        \/ InvokePolygonNumInteriors(t)
        \/ InvokePolygonInterior(t)
        \/ InvokeGeometries(t)
        \/ InvokeNumGeometries(t)
        \/ InvokeGeometry(t)
        \/ InvokeArrowExterior(t)
        \/ InvokeArrowNumInteriors(t)
        \/ InvokeArrowInterior(t)
        \/ InvokeArrowNumPoints(t)
        \/ InvokeArrowPoint(t)
        \/ Completes(t)
        \/ Forgets(t)

ConcurrentSpec == ConcurrentInit /\ [][ConcurrentNext]_vars

====
